---- MODULE Spec2Model ----
(***************************************************************************)
(* State-machine model of tgt-vhdl/vhdl.cc: the VHDL target's entity list, *)
(* the signal definition map, the error counter and target_design.         *)
(*                                                                         *)
(* Entity pointers and signal handles (ivl_signal_t) are opaque tokens,    *)
(* names are small integers (0 is the empty string), NULL is 0.  The       *)
(* scope/process traversal (draw_scope, draw_process) is the environment:  *)
(* while target_design is inside it, it may call any of the functions this *)
(* file exports, in any order.  assert() is modelled as compiled in: a     *)
(* failed assertion aborts the process (pc = "aborted").                   *)
(***************************************************************************)
EXTENDS Integers, Sequences, FiniteSets, TLC

\* ------------------------------------------------------------- bounds
MaxRuns == 2        \* calls of target_design in one process
MaxEntities == 2    \* vhdl_entity objects the traversal ever constructs
MaxSignals == 1     \* distinct ivl_signal_t tokens of the design
MaxNames == 2       \* distinct non-empty names
MaxErrors == 2      \* calls of error() in one process

Entities == 1..MaxEntities
Signals == 1..MaxSignals
Names == 1..MaxNames

NULL == 0           \* the null vhdl_entity pointer
EmptyString == 0    \* std::string()

VARIABLES
    pc,               \* where target_design is: idle, roots, process, gate,
                      \* emit, cleanup, or aborted (a failed assertion)
    runs,             \* number of target_design calls started so far
    g_errors,         \* static int g_errors
    g_entities,       \* static entity_list_t g_entities (a sequence)
    g_known_signals,  \* static signal_defn_map_t g_known_signals
    heap,             \* per vhdl_entity: constructed?, its name, times deleted
    it,               \* the loop iterator of the emit / clean-up loop
    outfile,          \* the std::ofstream of the current run
    status,           \* value returned by the last completed target_design
    \* observations of the current run (reset on entry to target_design)
    registered,       \* entities accepted by remember_entity, in call order
    reported,         \* number of error() calls
    emitted,          \* entities whose emit() was called, in call order
    written,          \* renderings that reached the output destination
    last              \* the last call made and what it returned

vars == <<pc, runs, g_errors, g_entities, g_known_signals, heap, it, outfile,
          status, registered, reported, emitted, written, last>>

\* ------------------------------------------------------- external parts
\* vhdl_entity::get_name(): the name an entity was constructed with.
get_name(ent) == heap[ent].name

\* ivl_signal_basename(): the declared base name of a source signal.
ivl_signal_basename(sig) == ((sig - 1) % MaxNames) + 1

NoStream == [constructed |-> FALSE, is_open |-> FALSE, fail |-> FALSE]

Call(op, sig, ent, name, ok, ret) ==
    [op |-> op, sig |-> sig, ent |-> ent, name |-> name, ok |-> ok, ret |-> ret]

\* ------------------------------------------------------------ helpers
\* a lookup that never finds anything
find_entity_never(tname) == NULL

\* a lookup that returns the front of the list whatever its name
find_entity_front(tname) == IF g_entities = <<>> THEN NULL ELSE g_entities[1]

\* find_entity: first element of g_entities with the given name, or NULL.
find_entity(tname) ==
    LET hits == {i \in 1..Len(g_entities) : get_name(g_entities[i]) = tname}
    IN  IF hits = {} THEN NULL
        ELSE g_entities[CHOOSE i \in hits : \A j \in hits : i <= j]

\* the assertions on g_known_signals left out
is_known_unchecked(sig) == TRUE

\* g_known_signals.find(sig) != g_known_signals.end()
is_known(sig) == sig \in DOMAIN g_known_signals

\* a record whose name is left empty
signal_defn_unnamed(sig, ent) == [renamed |-> EmptyString, ent |-> ent]

\* signal_defn_t defn = { ivl_signal_basename(sig), ent };
signal_defn(sig, ent) == [renamed |-> ivl_signal_basename(sig), ent |-> ent]

\* std::map::operator[]: inserts a value-initialised record when absent.
MapIndex(m, sig) ==
    IF sig \in DOMAIN m THEN m
    ELSE [s \in DOMAIN m \cup {sig} |->
            IF s = sig THEN [renamed |-> EmptyString, ent |-> NULL] ELSE m[s]]

\* a registration that names the record after the number of records so far
remembered_numbered(m, sig, ent) ==
    [MapIndex(m, sig) EXCEPT
        ![sig] = [renamed |-> (Cardinality(DOMAIN m) % MaxNames) + 1, ent |-> ent]]

\* g_known_signals[sig] = defn: the map after the assignment
remembered(m, sig, ent) == [MapIndex(m, sig) EXCEPT ![sig] = signal_defn(sig, ent)]

\* a rename that assigns a whole new record
renamed_as_fresh(m, sig, renamed) ==
    [MapIndex(m, sig) EXCEPT ![sig] = [renamed |-> renamed, ent |-> NULL]]

\* a rename that keeps the old name when another record holds the new one
renamed_as_if_free(m, sig, renamed) ==
    IF \E s \in DOMAIN m : s # sig /\ m[s].renamed = renamed
    THEN MapIndex(m, sig)
    ELSE [MapIndex(m, sig) EXCEPT ![sig].renamed = renamed]

\* g_known_signals[sig].renamed = renamed: the map after the assignment
renamed_as(m, sig, renamed) == [MapIndex(m, sig) EXCEPT ![sig].renamed = renamed]

\* a counter that is bumped twice
incremented_twice(n) == n + 2

\* g_errors++
incremented(n) == n + 1

\* an iterator that does not move
not_advanced(i) == i

\* ++it
advanced(i) == i + 1

\* insertion at the front of the list
push_front(list, ent) == <<ent>> \o list

\* g_entities.push_back(ent)
push_back(list, ent) == Append(list, ent)

\* emission that is not gated at all
AlwaysEmit == TRUE

\* the test guarding emission: 0 == g_errors
NoErrors == 0 = g_errors

\* a failure flag instead of the count
ReturnFlag == IF g_errors > 0 THEN 1 ELSE 0

\* the value target_design returns
ReturnValue == g_errors

\* a clean-up that only emitted runs perform
delete_if_clean(h, ent) ==
    IF g_errors = 0 THEN [h EXCEPT ![ent].deletes = @ + 1, ![ent].name = EmptyString]
    ELSE h

\* delete (*it): the object is destroyed
delete(h, ent) == [h EXCEPT ![ent].deletes = @ + 1, ![ent].name = EmptyString]

InTraversal == pc \in {"roots", "process"}

\* a failed assertion that is also counted as an error
Abort_counted(call) ==
    /\ pc' = "aborted"
    /\ last' = call
    /\ g_errors' = g_errors + 1
    /\ UNCHANGED <<runs, g_entities, g_known_signals, heap, it,
                   outfile, status, registered, reported, emitted, written>>

Abort(call) ==
    /\ pc' = "aborted"
    /\ last' = call
    /\ UNCHANGED <<runs, g_errors, g_entities, g_known_signals, heap, it,
                   outfile, status, registered, reported, emitted, written>>

\* --------------------------------------------------------------- Init
Init ==
    /\ pc = "idle"
    /\ runs = 0
    /\ g_errors = 0
    /\ g_entities = <<>>
    /\ g_known_signals = [s \in {} |-> signal_defn(s, NULL)]
    /\ heap = [e \in Entities |->
                 [allocated |-> FALSE, name |-> EmptyString, deletes |-> 0]]
    /\ it = 1
    /\ outfile = NoStream
    /\ status = 0
    /\ registered = <<>>
    /\ reported = 0
    /\ emitted = <<>>
    /\ written = <<>>
    /\ last = Call("none", 0, NULL, EmptyString, TRUE, 0)

\* ---------------------------------------------- functions of vhdl.cc
\* void error(const char *fmt, ...)
error ==
    /\ InTraversal
    /\ g_errors < MaxErrors
    /\ g_errors' = incremented(g_errors)
    /\ reported' = reported + 1
    /\ last' = Call("error", 0, NULL, EmptyString, TRUE, 0)
    /\ UNCHANGED <<pc, runs, g_entities, g_known_signals, heap, it, outfile,
                   status, registered, emitted, written>>

\* a call of find_entity(tname) by the traversal
call_find_entity(tname) ==
    /\ InTraversal
    /\ last' = Call("find_entity", 0, NULL, tname, TRUE, find_entity(tname))
    /\ UNCHANGED <<pc, runs, g_errors, g_entities, g_known_signals, heap, it,
                   outfile, status, registered, reported, emitted, written>>

\* The next object the allocator hands out (NULL when the model's supply is
\* used up); objects are never reused.
NewEntity ==
    LET free == {e \in Entities : ~heap[e].allocated}
    IN  IF free = {} THEN NULL ELSE CHOOSE e \in free : \A f \in free : e <= f

\* void remember_entity(vhdl_entity *ent), called with ent = new vhdl_entity
\* named tname, which the caller has just constructed
remember_entity(ent, tname) ==
    /\ InTraversal
    /\ ent # NULL
    /\ heap' = [heap EXCEPT ![ent] = [allocated |-> TRUE, name |-> tname, deletes |-> 0]]
    /\ IF find_entity(tname) = NULL
       THEN /\ g_entities' = push_back(g_entities, ent)
            /\ registered' = Append(registered, ent)
            /\ pc' = pc
       ELSE /\ pc' = "aborted"
            /\ UNCHANGED <<g_entities, registered>>
    /\ last' = Call("remember_entity", 0, ent, tname, find_entity(tname) = NULL, 0)
    /\ UNCHANGED <<runs, g_errors, g_known_signals, it, outfile,
                   status, reported, emitted, written>>

\* void remember_signal(ivl_signal_t sig, const vhdl_entity *ent)
remember_signal(sig, ent) ==
    /\ InTraversal
    /\ IF ~is_known(sig)
       THEN /\ g_known_signals' = remembered(g_known_signals, sig, ent)
            /\ last' = Call("remember_signal", sig, ent, EmptyString, TRUE, 0)
            /\ UNCHANGED <<pc, runs, g_errors, g_entities, heap, it, outfile,
                           status, registered, reported, emitted, written>>
       ELSE Abort(Call("remember_signal", sig, ent, EmptyString, FALSE, 0))

\* void rename_signal(ivl_signal_t sig, const std::string &renamed)
rename_signal(sig, renamed) ==
    /\ InTraversal
    /\ IF is_known(sig)
       THEN /\ g_known_signals' = renamed_as(g_known_signals, sig, renamed)
            /\ last' = Call("rename_signal", sig, NULL, renamed, TRUE, 0)
            /\ UNCHANGED <<pc, runs, g_errors, g_entities, heap, it, outfile,
                           status, registered, reported, emitted, written>>
       ELSE Abort(Call("rename_signal", sig, NULL, renamed, FALSE, 0))

\* const vhdl_entity *find_entity_for_signal(ivl_signal_t sig)
find_entity_for_signal(sig) ==
    /\ InTraversal
    /\ IF is_known(sig)
       THEN /\ g_known_signals' = MapIndex(g_known_signals, sig)
            /\ last' = Call("find_entity_for_signal", sig, NULL, EmptyString, TRUE,
                            MapIndex(g_known_signals, sig)[sig].ent)
            /\ UNCHANGED <<pc, runs, g_errors, g_entities, heap, it, outfile,
                           status, registered, reported, emitted, written>>
       ELSE Abort(Call("find_entity_for_signal", sig, NULL, EmptyString, FALSE, 0))

\* const std::string &get_renamed_signal(ivl_signal_t sig)
get_renamed_signal(sig) ==
    /\ InTraversal
    /\ IF is_known(sig)
       THEN /\ g_known_signals' = MapIndex(g_known_signals, sig)
            /\ last' = Call("get_renamed_signal", sig, NULL, EmptyString, TRUE,
                            MapIndex(g_known_signals, sig)[sig].renamed)
            /\ UNCHANGED <<pc, runs, g_errors, g_entities, heap, it, outfile,
                           status, registered, reported, emitted, written>>
       ELSE Abort(Call("get_renamed_signal", sig, NULL, EmptyString, FALSE, 0))

\* ------------------------------------------------------ target_design
\* entry: ivl_design_roots, then the draw_scope loop starts
target_design_begin ==
    /\ pc = "idle"
    /\ runs < MaxRuns
    /\ pc' = "roots"
    /\ runs' = runs + 1
    /\ it' = 1
    /\ outfile' = NoStream
    /\ registered' = <<>>
    /\ reported' = 0
    /\ emitted' = <<>>
    /\ written' = <<>>
    /\ last' = Call("target_design", 0, NULL, EmptyString, TRUE, 0)
    /\ UNCHANGED <<g_errors, g_entities, g_known_signals, heap, status>>

\* the draw_scope loop over the roots ends; ivl_design_process starts
roots_done ==
    /\ pc = "roots"
    /\ pc' = "process"
    /\ last' = Call("ivl_design_process", 0, NULL, EmptyString, TRUE, 0)
    /\ UNCHANGED <<runs, g_errors, g_entities, g_known_signals, heap, it,
                   outfile, status, registered, reported, emitted, written>>

\* ivl_design_process returns
process_done ==
    /\ pc = "process"
    /\ pc' = "gate"
    /\ last' = Call("traversed", 0, NULL, EmptyString, TRUE, 0)
    /\ UNCHANGED <<runs, g_errors, g_entities, g_known_signals, heap, it,
                   outfile, status, registered, reported, emitted, written>>

\* if (0 == g_errors) { std::ofstream outfile(ofname); ...
gate(opens) ==
    /\ pc = "gate"
    /\ it' = 1
    /\ IF NoErrors
       THEN /\ pc' = "emit"
            /\ outfile' = [constructed |-> TRUE, is_open |-> opens, fail |-> ~opens]
       ELSE /\ pc' = "cleanup"
            /\ outfile' = outfile
    /\ last' = Call("gate", 0, NULL, EmptyString, NoErrors, 0)
    /\ UNCHANGED <<runs, g_errors, g_entities, g_known_signals, heap, status,
                   registered, reported, emitted, written>>

\* (*it)->emit(outfile); ++it
emit_step ==
    /\ pc = "emit"
    /\ it <= Len(g_entities)
    /\ emitted' = Append(emitted, g_entities[it])
    /\ written' = IF outfile.is_open /\ ~outfile.fail
                  THEN Append(written, g_entities[it]) ELSE written
    /\ it' = advanced(it)
    /\ last' = Call("emit", 0, g_entities[it], EmptyString, TRUE, 0)
    /\ UNCHANGED <<pc, runs, g_errors, g_entities, g_known_signals, heap,
                   outfile, status, registered, reported>>

\* outfile.close(); and the end of the if block
emit_close ==
    /\ pc = "emit"
    /\ it > Len(g_entities)
    /\ outfile' = [outfile EXCEPT !.is_open = FALSE,
                                  !.fail = outfile.fail \/ ~outfile.is_open]
    /\ pc' = "cleanup"
    /\ it' = 1
    /\ last' = Call("close", 0, NULL, EmptyString, TRUE, 0)
    /\ UNCHANGED <<runs, g_errors, g_entities, g_known_signals, heap, status,
                   registered, reported, emitted, written>>

\* delete (*it); ++it
cleanup_step ==
    /\ pc = "cleanup"
    /\ it <= Len(g_entities)
    /\ heap' = delete(heap, g_entities[it])
    /\ it' = advanced(it)
    /\ last' = Call("delete", 0, g_entities[it], EmptyString, TRUE, 0)
    /\ UNCHANGED <<pc, runs, g_errors, g_entities, g_known_signals, outfile,
                   status, registered, reported, emitted, written>>

\* g_entities.clear(); return g_errors;
target_design_return ==
    /\ pc = "cleanup"
    /\ it > Len(g_entities)
    /\ g_entities' = <<>>
    /\ status' = ReturnValue
    /\ pc' = "idle"
    /\ it' = 1
    /\ last' = Call("return", 0, NULL, EmptyString, TRUE, ReturnValue)
    /\ UNCHANGED <<runs, g_errors, g_known_signals, heap, outfile,
                   registered, reported, emitted, written>>

\* ------------------------------------------------------------- Next
Next ==
    \/ target_design_begin
    \/ error
    \/ \E tname \in Names : call_find_entity(tname)
    \/ \E tname \in Names : remember_entity(NewEntity, tname)
    \/ \E sig \in Signals, i \in 1..Len(g_entities) : remember_signal(sig, g_entities[i])
    \/ \E sig \in Signals, renamed \in Names : rename_signal(sig, renamed)
    \/ \E sig \in Signals : find_entity_for_signal(sig)
    \/ \E sig \in Signals : get_renamed_signal(sig)
    \/ roots_done
    \/ process_done
    \/ \E opens \in BOOLEAN : gate(opens)
    \/ emit_step
    \/ emit_close
    \/ cleanup_step
    \/ target_design_return

Spec == Init /\ [][Next]_vars

\* ------------------------------------- one error-free run, more signals
\* The process as the compiler drives it: target_design is called once.  The
\* traversal reports no error and the design has MaxDesignSignals signals.
MaxDesignSignals == 2

DesignSignals == 1..MaxDesignSignals

SigNext ==
    \/ runs = 0 /\ target_design_begin
    \/ \E tname \in Names : call_find_entity(tname)
    \/ \E tname \in Names : remember_entity(NewEntity, tname)
    \/ \E sig \in DesignSignals, i \in 1..Len(g_entities) :
           remember_signal(sig, g_entities[i])
    \/ \E sig \in DesignSignals, renamed \in Names : rename_signal(sig, renamed)
    \/ \E sig \in DesignSignals : find_entity_for_signal(sig)
    \/ \E sig \in DesignSignals : get_renamed_signal(sig)
    \/ roots_done
    \/ process_done
    \/ \E opens \in BOOLEAN : gate(opens)
    \/ emit_step
    \/ emit_close
    \/ cleanup_step
    \/ target_design_return

SigSpec == Init /\ [][SigNext]_vars

\* ------------------------------------------------------------ typing
TypeOK ==
    /\ pc \in {"idle", "roots", "process", "gate", "emit", "cleanup", "aborted"}
    /\ runs \in 0..MaxRuns
    /\ g_errors \in 0..MaxErrors
    /\ g_entities \in Seq(Entities)
    /\ DOMAIN g_known_signals \subseteq Signals \cup DesignSignals
    /\ \A s \in DOMAIN g_known_signals :
          /\ g_known_signals[s].renamed \in Names \cup {EmptyString}
          /\ g_known_signals[s].ent \in Entities \cup {NULL}
    /\ it \in 1..(MaxEntities + 1)
    /\ status \in 0..MaxErrors

\* a run of target_design has just returned
RunReturned == pc = "idle" /\ last.op = "return"

\* the current run performed the emission branch
EmissionPerformed == outfile.constructed

\* ------------------------------------------------------------ claims

\* C1: a run whose error count is above zero at the gate check never opens
\* the output destination and never emits or writes any entity, neither all
\* of them nor some of them.
C1_FailedRunWritesNothing ==
    (g_errors > 0 /\ pc \in {"gate", "emit", "cleanup", "idle"}) =>
        /\ pc # "emit"
        /\ ~outfile.constructed
        /\ emitted = <<>>
        /\ written = <<>>

\* a failed run that registered an entity has returned
C1_Witness ==
    RunReturned /\ g_errors > 0 /\ reported > 0 /\ Len(registered) > 0

\* C2: every run in which no error is reported (a first run or a later one)
\* delivers to the output destination exactly one rendering of every entity
\* registered in that run, in registration order.  Stated for destinations
\* that can be opened.
C2_CleanRunWritesAll ==
    (RunReturned /\ reported = 0 /\ ~outfile.fail) => written = registered

\* C3: on entry to every run of target_design the error count is zero.
C3_ErrorCountZeroAtRunStart ==
    last.op = "target_design" => g_errors = 0

\* C4: after a run of target_design has completed the signal map holds no
\* record.
C4_SignalMapEmptyAfterRun ==
    pc = "idle" => DOMAIN g_known_signals = {}

\* C5: no entity is ever deleted twice; from the gate check on the run is
\* never stuck (its next step is always enabled), the clean-up loop has
\* deleted exactly the entries before its iterator; and when the run has
\* returned, every entity registered in it has been deleted exactly once, the
\* registry is empty and no name is found in it.
C5_RegistryReleasedAfterRun ==
    /\ \A e \in Entities : heap[e].deletes <= 1
    /\ pc = "gate" => ENABLED (\E opens \in BOOLEAN : gate(opens))
    /\ pc = "emit" => ENABLED (emit_step \/ emit_close)
    /\ pc = "cleanup" =>
          /\ ENABLED (cleanup_step \/ target_design_return)
          /\ it <= Len(g_entities) + 1
          /\ \A i \in 1..Len(g_entities) :
                heap[g_entities[i]].deletes = IF i < it THEN 1 ELSE 0
    /\ RunReturned =>
          /\ g_entities = <<>>
          /\ \A i \in 1..Len(registered) : heap[registered[i]].deletes = 1
          /\ \A n \in Names :
                ~\E i \in 1..Len(g_entities) : heap[g_entities[i]].name = n

\* a failed run that registered two entities has returned
C5_Witness ==
    RunReturned /\ g_errors > 0 /\ Len(registered) = 2
    /\ heap[registered[1]].deletes = 1 /\ heap[registered[2]].deletes = 1

\* C6: target_design returns the error count as it stands at the end of the
\* run; the status is 0 exactly when the run performed emission and above 0
\* exactly when it skipped emission.
C6_ReturnStatus ==
    RunReturned =>
        /\ status = g_errors
        /\ last.ret = g_errors
        /\ (status = 0) <=> EmissionPerformed
        /\ (status > 0) <=> ~EmissionPerformed

\* a run that reported two errors has returned 2 without emitting
C6_Witness ==
    RunReturned /\ reported = 2 /\ status = 2 /\ ~EmissionPerformed

\* C7: the registry always equals the sequence of entities accepted by
\* remember_entity in this run, the emit calls made so far are a prefix of
\* that sequence and, once emission is over, the whole of it; a
\* remember_signal or rename_signal step leaves the registry unchanged.
C7_StateOrder ==
    /\ pc \in {"roots", "process", "gate", "emit", "cleanup"} => g_entities = registered
    /\ Len(emitted) <= Len(registered)
    /\ emitted = SubSeq(registered, 1, Len(emitted))
    /\ (EmissionPerformed /\ pc \in {"cleanup", "idle"}) => emitted = registered

C7_OrderPreserved ==
    /\ []C7_StateOrder
    /\ [][last'.op \in {"remember_signal", "rename_signal"} =>
              g_entities' = g_entities /\ registered' = registered]_vars

\* two entities were emitted in registration order in a run in which a
\* signal of the second entity was registered and renamed
C7_Witness ==
    /\ RunReturned /\ runs = 1
    /\ Len(registered) = 2 /\ emitted = registered /\ written = registered
    /\ \E s \in DOMAIN g_known_signals :
          /\ g_known_signals[s].ent = registered[2]
          /\ g_known_signals[s].renamed # ivl_signal_basename(s)

\* C8: no two entries of the registry (entities not yet destroyed by the
\* clean-up loop, whose names no longer exist) have the same name, and a
\* remember_entity call whose entity has a name already in the registry
\* aborts, leaving the registry and the error count as they were.
C8_NamesDistinct ==
    \A i, j \in 1..Len(g_entities) :
        (i # j /\ heap[g_entities[i]].deletes = 0 /\ heap[g_entities[j]].deletes = 0)
            => heap[g_entities[i]].name # heap[g_entities[j]].name

C8_EntityNamesUnique ==
    /\ []C8_NamesDistinct
    /\ [][(/\ last'.op = "remember_entity"
            /\ \E i \in 1..Len(g_entities) : heap[g_entities[i]].name = last'.name)
           => /\ pc' = "aborted"
              /\ ~last'.ok
              /\ g_entities' = g_entities
              /\ g_errors' = g_errors]_vars

\* remember_entity was called with a name the registry holds and aborted
C8_Witness ==
    /\ pc = "aborted" /\ last.op = "remember_entity"
    /\ \E i \in 1..Len(g_entities) : heap[g_entities[i]].name = last.name

\* C9: remember_signal on an unregistered signal adds exactly one record,
\* named by the signal's base name and owned by the given entity, and
\* changes no other record; on a registered signal it aborts and the map
\* stays as it was.
C9_CreateOnce ==
    [][last'.op = "remember_signal" =>
          IF last'.sig \notin DOMAIN g_known_signals
          THEN /\ last'.ok /\ pc' = pc
               /\ DOMAIN g_known_signals' = DOMAIN g_known_signals \cup {last'.sig}
               /\ g_known_signals'[last'.sig] =
                     [renamed |-> ivl_signal_basename(last'.sig), ent |-> last'.ent]
               /\ \A s \in DOMAIN g_known_signals :
                     g_known_signals'[s] = g_known_signals[s]
          ELSE /\ ~last'.ok /\ pc' = "aborted"
               /\ g_known_signals' = g_known_signals]_vars

\* a signal registered in this run was registered a second time: abort
C9_Witness ==
    /\ pc = "aborted" /\ runs = 1 /\ last.op = "remember_signal"
    /\ last.sig \in DOMAIN g_known_signals
    /\ g_known_signals[last.sig].renamed = ivl_signal_basename(last.sig)

\* C10: find_entity_for_signal, get_renamed_signal and rename_signal called
\* for a signal without a record abort, return nothing and leave the map
\* as it was (no record is created).
C10_LookupBeforeRegisterFaults ==
    [][(/\ last'.op \in {"find_entity_for_signal", "get_renamed_signal", "rename_signal"}
        /\ last'.sig \notin DOMAIN g_known_signals)
       => /\ pc' = "aborted"
          /\ ~last'.ok
          /\ last'.ret = 0
          /\ g_known_signals' = g_known_signals]_vars

\* a lookup of the current name of a never registered signal aborted
C10_Witness ==
    /\ pc = "aborted" /\ last.op = "get_renamed_signal"
    /\ DOMAIN g_known_signals = {}

\* C11: get_renamed_signal returns the recorded name and
\* find_entity_for_signal the recorded owner of a registered signal without
\* changing the map; a rename_signal step on a registered signal sets the
\* name to its argument and keeps the owner; and no step of any kind removes
\* a record, changes an owner, or changes a name other than a rename_signal
\* step on that very signal.  So the name returned is the one of the latest
\* rename (the base name set at creation when there was none) and the owner
\* is the one given at creation.
C11_RenameVisibility ==
    [][/\ (last'.op = "get_renamed_signal" /\ last'.sig \in DOMAIN g_known_signals)
          => /\ last'.ok /\ pc' = pc
             /\ last'.ret = g_known_signals[last'.sig].renamed
             /\ g_known_signals' = g_known_signals
       /\ (last'.op = "find_entity_for_signal" /\ last'.sig \in DOMAIN g_known_signals)
          => /\ last'.ok /\ pc' = pc
             /\ last'.ret = g_known_signals[last'.sig].ent
             /\ g_known_signals' = g_known_signals
       /\ (last'.op = "rename_signal" /\ last'.sig \in DOMAIN g_known_signals)
          => /\ last'.ok /\ pc' = pc
             /\ g_known_signals'[last'.sig].renamed = last'.name
       /\ \A s \in DOMAIN g_known_signals :
             /\ s \in DOMAIN g_known_signals'
             /\ g_known_signals'[s].ent = g_known_signals[s].ent
             /\ g_known_signals'[s].renamed # g_known_signals[s].renamed
                => /\ last'.op = "rename_signal" /\ last'.sig = s
                   /\ g_known_signals'[s].renamed = last'.name]_vars

\* after both signals were registered and renamed, a lookup of one signal's
\* name returned a name that is not its base name, its owner being intact
C11_Witness ==
    /\ last.op = "get_renamed_signal" /\ last.ok
    /\ DOMAIN g_known_signals = DesignSignals
    /\ \A s \in DesignSignals :
          /\ g_known_signals[s].renamed # ivl_signal_basename(s)
          /\ g_known_signals[s].ent \in {registered[i] : i \in 1..Len(registered)}
    /\ last.ret = g_known_signals[last.sig].renamed

\* C12: every error() step raises the error count by exactly one, does not
\* abort or leave the traversal, and leaves the registry, the entities, the
\* signal map and the output stream as they were.
C12_ReportEffect ==
    [][last'.op = "error" =>
          /\ g_errors' = g_errors + 1
          /\ pc' = pc /\ pc \in {"roots", "process"}
          /\ g_entities' = g_entities
          /\ g_known_signals' = g_known_signals
          /\ heap' = heap
          /\ outfile' = outfile /\ emitted' = emitted /\ written' = written
          /\ status' = status /\ runs' = runs]_vars

\* after two reports in this run the traversal registered an entity and then
\* a signal of it
C12_Witness ==
    /\ reported = 2 /\ g_errors = 2
    /\ last.op = "remember_signal" /\ last.ok
    /\ Len(g_entities) = 1 /\ last.ent = g_entities[1]

\* C13: the error count never decreases and only an error() step changes
\* it; a failed assertion of remember_entity, remember_signal, rename_signal,
\* find_entity_for_signal or get_renamed_signal aborts with the count as it
\* was, and nothing else aborts.
C13_Assertions ==
    {"remember_entity", "remember_signal", "rename_signal",
     "find_entity_for_signal", "get_renamed_signal"}

C13_CountMonotone ==
    [][/\ g_errors' >= g_errors
       /\ g_errors' # g_errors => last'.op = "error"
       /\ (last'.op \in C13_Assertions /\ ~last'.ok)
             => pc' = "aborted" /\ g_errors' = g_errors
       /\ pc' = "aborted"
             => /\ last'.op \in C13_Assertions /\ ~last'.ok
                /\ g_errors' = g_errors /\ reported' = reported]_vars

\* a rename of an unregistered signal aborted a run that had reported an
\* error; the count is still 1
C13_Witness ==
    /\ pc = "aborted" /\ last.op = "rename_signal" /\ ~last.ok
    /\ reported = 1 /\ g_errors = 1

\* C14: a rename_signal step on a registered signal always succeeds and
\* records the new name, whatever names the other records hold (the new name
\* may be the current name of another signal); it changes no other record.
C14_RenameUnchecked ==
    [][(last'.op = "rename_signal" /\ last'.sig \in DOMAIN g_known_signals) =>
          /\ last'.ok /\ pc' = pc
          /\ DOMAIN g_known_signals' = DOMAIN g_known_signals
          /\ g_known_signals'[last'.sig] =
                [renamed |-> last'.name, ent |-> g_known_signals[last'.sig].ent]
          /\ \A s \in DOMAIN g_known_signals \ {last'.sig} :
                g_known_signals'[s] = g_known_signals[s]]_vars

\* a rename has just given a signal the output name that another signal of
\* the same owner entity holds
C14_Witness ==
    /\ last.op = "rename_signal" /\ last.ok
    /\ \E t \in DOMAIN g_known_signals :
          /\ t # last.sig
          /\ g_known_signals[t].renamed = g_known_signals[last.sig].renamed
          /\ g_known_signals[t].renamed = last.name
          /\ g_known_signals[t].ent = g_known_signals[last.sig].ent
          /\ g_known_signals[t].ent # NULL

\* C15: a find_entity(name) call returns an entry of the registry whose name
\* is name when there is one and NULL when there is none; it never aborts
\* and changes neither the registry, the entities, the signal map nor the
\* error count.
C15_EntityLookup ==
    [][last'.op = "find_entity" =>
          /\ last'.ok /\ pc' = pc
          /\ IF \E i \in 1..Len(g_entities) : heap[g_entities[i]].name = last'.name
             THEN \E i \in 1..Len(g_entities) :
                     /\ last'.ret = g_entities[i]
                     /\ heap[g_entities[i]].name = last'.name
             ELSE last'.ret = NULL
          /\ g_entities' = g_entities
          /\ heap' = heap
          /\ g_known_signals' = g_known_signals
          /\ g_errors' = g_errors]_vars

\* with two entities registered, a lookup of the second one's name returned
\* the second one
C15_Witness ==
    /\ last.op = "find_entity" /\ Len(g_entities) = 2
    /\ last.ret = g_entities[2] /\ heap[g_entities[2]].name = last.name

\* C16: from every signal map the traversal can reach, two operations
\* (remember_signal or rename_signal) on different signals give the same
\* outcome in either order: both orders fail an assertion or neither does,
\* and when neither does the resulting maps (owner and output name of every
\* signal) are equal.  Two call sequences that differ only in how operations
\* on different signals are interleaved differ by such swaps of neighbours.
\* (A std::map holds one record per key.)
C16_Ops ==
    [kind : {"remember_signal"}, sig : DesignSignals,
     ent : {g_entities[i] : i \in 1..Len(g_entities)}, name : {EmptyString}]
    \cup
    [kind : {"rename_signal"}, sig : DesignSignals, ent : {NULL}, name : Names]

\* one call on map r.map, as the assertions and assignments of the two
\* functions decide it; a run that has aborted stays aborted
C16_Apply(r, op) ==
    IF ~r.ok THEN r
    ELSE IF op.kind = "remember_signal"
         THEN IF op.sig \in DOMAIN r.map THEN [ok |-> FALSE, map |-> r.map]
              ELSE [ok |-> TRUE, map |-> remembered(r.map, op.sig, op.ent)]
         ELSE IF op.sig \notin DOMAIN r.map THEN [ok |-> FALSE, map |-> r.map]
              ELSE [ok |-> TRUE, map |-> renamed_as(r.map, op.sig, op.name)]

C16_Start == [ok |-> TRUE, map |-> g_known_signals]

\* the states in which the map or the set of entities has just changed
C16_MapChanged ==
    /\ pc \in {"roots", "process"}
    /\ last.ok
    /\ last.op \in {"target_design", "remember_entity", "remember_signal",
                    "rename_signal"}

C16_VisitOrderIndependent ==
    C16_MapChanged =>
        \A a \in C16_Ops, b \in C16_Ops :
            a.sig # b.sig =>
                LET ab == C16_Apply(C16_Apply(C16_Start, a), b)
                    ba == C16_Apply(C16_Apply(C16_Start, b), a)
                IN  /\ ab.ok = ba.ok
                    /\ ab.ok => ab.map = ba.map

\* one signal is registered, the other is not: renaming the first and
\* registering the second succeed in both orders
C16_Witness ==
    /\ C16_MapChanged
    /\ \E a \in C16_Ops, b \in C16_Ops :
          /\ a.kind = "rename_signal" /\ b.kind = "remember_signal"
          /\ a.sig # b.sig
          /\ C16_Apply(C16_Apply(C16_Start, a), b).ok
          /\ C16_Apply(C16_Apply(C16_Start, b), a).ok
          /\ C16_Apply(C16_Apply(C16_Start, a), b).map[a.sig].renamed = a.name
          /\ C16_Apply(C16_Apply(C16_Start, a), b).map[b.sig].ent = b.ent

\* the constructor of the output stream could not open the destination
OpenFailed == outfile.constructed /\ outfile.fail

\* C17: in a run that passes the gate check with no error, when the output
\* destination cannot be opened no emit is performed on the stream and
\* nothing is written, and the stream is not open once the emission block is
\* left.
C17_NoEmitOnUnopenedStream ==
    /\ OpenFailed => emitted = <<>> /\ written = <<>>
    /\ pc \in {"cleanup", "idle"} => ~outfile.is_open

\* C18: outside the clean-up loop, the owner of every signal record is an
\* entity that has not been deleted, and the entity a find_entity_for_signal
\* call of the traversal has returned is not a deleted one.
C18_OwnersAlive ==
    pc # "cleanup" =>
        /\ \A s \in DOMAIN g_known_signals :
              g_known_signals[s].ent # NULL =>
                  heap[g_known_signals[s].ent].deletes = 0
        /\ (InTraversal /\ last.op = "find_entity_for_signal" /\ last.ok
               /\ last.ret # NULL)
              => heap[last.ret].deletes = 0

\* C19: target_design moves through its phases in the order roots,
\* processes, gate check, emission (if any), clean-up, return, and leaves
\* that order only by aborting inside the traversal; entities are registered
\* only inside the traversal, emitted only in the emission phase and deleted
\* only in the clean-up; an emit call is made on an entity that has not been
\* deleted and has not been emitted before in this run.
C19_PhaseSteps ==
    {<<"idle", "roots">>, <<"roots", "process">>, <<"process", "gate">>,
     <<"gate", "emit">>, <<"gate", "cleanup">>, <<"emit", "cleanup">>,
     <<"cleanup", "idle">>, <<"roots", "aborted">>, <<"process", "aborted">>}

C19_NoRepeat(seq) == \A i, j \in 1..Len(seq) : i # j => seq[i] # seq[j]

C19_StatePhases ==
    /\ C19_NoRepeat(emitted)
    /\ pc \in {"roots", "process", "gate", "emit"} =>
          \A i \in 1..Len(g_entities) : heap[g_entities[i]].deletes = 0
    /\ pc \in {"roots", "process", "gate"} => emitted = <<>> /\ ~outfile.constructed

C19_PhaseOrder ==
    /\ []C19_StatePhases
    /\ [][/\ pc' # pc => <<pc, pc'>> \in C19_PhaseSteps
          /\ (last'.op = "remember_entity" \/ Len(g_entities') > Len(g_entities))
                => pc \in {"roots", "process"}
          /\ (emitted' # emitted /\ pc # "idle")
                => /\ pc = "emit" /\ pc' = "emit"
                   /\ \E i \in 1..Len(g_entities) :
                         /\ emitted' = Append(emitted, g_entities[i])
                         /\ heap[g_entities[i]].deletes = 0
                         /\ \A k \in 1..Len(emitted) : emitted[k] # g_entities[i]
          /\ (\E e \in Entities : heap'[e].deletes # heap[e].deletes)
                => pc = "cleanup" /\ pc' = "cleanup"]_vars

\* a second run has emitted its two entities, each once, deleted them and
\* returned
C19_Witness ==
    /\ RunReturned /\ runs = 2 /\ Len(registered) = 2
    /\ emitted = registered /\ C19_NoRepeat(emitted)
    /\ \A i \in 1..Len(registered) : heap[registered[i]].deletes = 1

====
